---- MODULE Spec2Model ----
(***************************************************************************)
(* A model of the optimisation snippets of looping.cpp and branching.cpp.  *)
(* Every snippet is a standalone function; the snippets share no state     *)
(* (except the static `count` of branch_ex_1 / branch_ex_2), so each group *)
(* of variants has a specification of its own over the same variables.     *)
(* Variables a snippet does not use stay at Unused in its specification.   *)
(*                                                                         *)
(* Arrays and vectors are functions over 0..len-1, indexed as in C++.      *)
(* An access outside an object is undefined behaviour: the access is       *)
(* logged and the run ends at "undefined" (ub for the vector snippets),    *)
(* which stands for every outcome a build can produce: a trap, or a run    *)
(* that goes on with stray values.  Nothing is asserted of the values in   *)
(* such a state.                                                           *)
(*                                                                         *)
(* A signed overflow is undefined behaviour too.  branch_while_*, whose     *)
(* inputs include INT_MAX, model it; the inputs of the other snippets are  *)
(* small, and none of their runs comes near the limits of int.             *)
(***************************************************************************)
EXTENDS Integers, Sequences, FiniteSets, TLC

VARIABLES
    pc,     \* control location of the running function
    fn,     \* the function being executed (or the last one called)
    input,  \* the input every variant of the case is started from
    res,    \* res[f]: what variant f left behind, for the variants that ran
    a, b, c,        \* the arrays named a, b and c in the snippets
    i, j, k,        \* the loop counters named i, j and k in the snippets
    n,              \* duffs_device: the pass counter n; simd_add: parameter N
    to, from,       \* duffs_device: offsets of the pointers to and from
    count,          \* duffs_device: parameter count; branch_ex_*: static count
    mem,            \* duffs_device: the two buffers the pointers run over
    acc,            \* log of the accesses made so far
    ret             \* the value returned by the last call

vars == <<pc, fn, input, res, a, b, c, i, j, k, n, to, from, count, mem, acc, ret>>

Unused == "unused"

\* Whether variant f of the case has run, and the call of the next one: every
\* variant is started from the same input, in any order.
Ran(f) == f \in DOMAIN res

Idle == pc = "idle"

\* Values an int that was never written may be found to hold.
Indeterminate == {-1, 7}

\* An array of len elements that all hold v.
Fill(len, v) == [x \in 0 .. len - 1 |-> v]

\* std::vector::size(), and the element count of a built-in array.
Size(arr) == Cardinality(DOMAIN arr)

-----------------------------------------------------------------------------
(***************************************************************************)
(* Loop unrolling: loop_unrolling_1 and loop_unrolling_2.                  *)
(***************************************************************************)

N == 100

\* a[i] = i
LoopUnrolling1Body(arr, ii) == [arr EXCEPT ![ii] = ii]

\* The indices one pass of loop_unrolling_2 writes.
LoopUnrolling2Indices(ii) == {ii, ii + 1, ii + 2, ii + 3}

\* loop_unrolling_2 with its fourth assignment forgotten.
LoopUnrolling2BodyThreeWrites(arr, ii) ==
    [x \in DOMAIN arr |->
        IF x \in {ii, ii + 1, ii + 2} THEN x ELSE arr[x]]

\* a[i] = i; a[i+1] = i+1; a[i+2] = i+2; a[i+3] = i+3 (the writes that land
\* inside the array)
LoopUnrolling2Body(arr, ii) ==
    [x \in DOMAIN arr |->
        IF x \in LoopUnrolling2Indices(ii) THEN x ELSE arr[x]]

UnrollIdle ==
    /\ input = Unused /\ res = Unused
    /\ b = Unused /\ c = Unused /\ j = Unused /\ k = Unused
    /\ n = Unused /\ to = Unused /\ from = Unused /\ count = Unused
    /\ mem = Unused /\ ret = Unused

UnrollInit ==
    /\ fn \in {"loop_unrolling_1", "loop_unrolling_2"}
    /\ pc = "for"
    /\ \E g \in Indeterminate : a = Fill(N, g)
    /\ i = 0
    /\ acc = {}
    /\ UnrollIdle

loop_unrolling_1 ==
    /\ fn = "loop_unrolling_1"
    /\ pc = "for"
    /\ IF i < N
       THEN /\ a' = LoopUnrolling1Body(a, i)
            /\ acc' = acc \cup {i}
            /\ i' = i + 1
            /\ pc' = "for"
       ELSE /\ pc' = "done"
            /\ UNCHANGED <<a, acc, i>>
    /\ UNCHANGED <<fn, input, res, b, c, j, k, n, to, from, count, mem, ret>>

loop_unrolling_2 ==
    /\ fn = "loop_unrolling_2"
    /\ pc = "for"
    /\ IF i < N
       THEN /\ a' = LoopUnrolling2Body(a, i)
            /\ acc' = acc \cup LoopUnrolling2Indices(i)
            /\ i' = i + 4
            /\ pc' = IF LoopUnrolling2Indices(i) \subseteq DOMAIN a
                     THEN "for" ELSE "undefined"
       ELSE /\ pc' = "done"
            /\ UNCHANGED <<a, acc, i>>
    /\ UNCHANGED <<fn, input, res, b, c, j, k, n, to, from, count, mem, ret>>

UnrollNext == loop_unrolling_1 \/ loop_unrolling_2

SpecUnroll == UnrollInit /\ [][UnrollNext]_vars

\* C8: loop_unrolling_2 is equivalent to loop_unrolling_1 for N = 100: when
\* either function finishes, a[x] = x for every x in 0..N-1, and every index
\* loop_unrolling_2 writes is below N (it never leaves the array).
C8_UnrollEquivalent ==
    /\ pc # "undefined"
    /\ acc \subseteq 0 .. N - 1
    /\ pc = "done" => /\ a = [x \in 0 .. N - 1 |-> x]
                      /\ acc = 0 .. N - 1

C8_Witness ==
    /\ fn = "loop_unrolling_2"
    /\ pc = "done"
    /\ (N - 1) \in acc

-----------------------------------------------------------------------------
(***************************************************************************)
(* Loop interchange: loop_interchange_1 (i, j, k) and loop_interchange_2   *)
(* (i, k, j).  The matrices are MatN x MatN; the source's N is 100.        *)
(***************************************************************************)

MatN == 2

MatIdx == 0 .. MatN - 1

ZeroMat == [r \in MatIdx |-> [s \in MatIdx |-> 0]]

\* The contents b and c are started with: all zero, or zero with one cell set.
MatContents ==
    {ZeroMat} \cup
    {[ZeroMat EXCEPT ![r][s] = v] : r \in MatIdx, s \in MatIdx, v \in {1, 2}}

\* loop_interchange_2's statement with c read transposed.
LoopInterchangeBodyTransposed(ma, mb, mc, ii, jj, kk) ==
    [ma EXCEPT ![ii][jj] = mb[ii][kk] + mc[jj][kk]]

\* a[i][j] = b[i][k] + c[k][j]
LoopInterchangeBody(ma, mb, mc, ii, jj, kk) ==
    [ma EXCEPT ![ii][jj] = mb[ii][kk] + mc[kk][jj]]

LoopInterchange1Body(ma, mb, mc, ii, jj, kk) ==
    LoopInterchangeBody(ma, mb, mc, ii, jj, kk)

LoopInterchange2Body(ma, mb, mc, ii, jj, kk) ==
    LoopInterchangeBody(ma, mb, mc, ii, jj, kk)

InterchangeIdle ==
    /\ n = Unused /\ to = Unused /\ from = Unused /\ count = Unused
    /\ mem = Unused /\ ret = Unused /\ acc = Unused

InterchangeInit ==
    /\ input \in [b : MatContents, c : MatContents]
    /\ res = <<>>
    /\ pc = "idle"
    /\ fn = "none"
    /\ a = Unused /\ b = Unused /\ c = Unused
    /\ i = Unused /\ j = Unused /\ k = Unused
    /\ InterchangeIdle

\* int a[N][N], b[N][N], c[N][N]; and the start of the outer loop
InterchangeCall ==
    /\ Idle
    /\ \E f \in {"loop_interchange_1", "loop_interchange_2"} :
          /\ ~Ran(f)
          /\ fn' = f
    /\ \E g \in Indeterminate : a' = [r \in MatIdx |-> [s \in MatIdx |-> g]]
    /\ b' = input.b
    /\ c' = input.c
    /\ i' = 0 /\ j' = 0 /\ k' = 0
    /\ pc' = "for_outer"
    /\ UNCHANGED <<input, res, n, to, from, count, mem, acc, ret>>

\* for (i = 0; i < N; i++): test, then enter the middle loop or leave
InterchangeOuter ==
    /\ fn \in {"loop_interchange_1", "loop_interchange_2"}
    /\ pc = "for_outer"
    /\ IF i < MatN
       THEN /\ pc' = "for_middle"
            /\ j' = IF fn = "loop_interchange_1" THEN 0 ELSE j
            /\ k' = IF fn = "loop_interchange_2" THEN 0 ELSE k
            /\ UNCHANGED res
       ELSE /\ pc' = "idle"
            /\ res' = res @@ (fn :> [a |-> a, b |-> b, c |-> c])
            /\ UNCHANGED <<j, k>>
    /\ UNCHANGED <<fn, input, a, b, c, i, n, to, from, count, mem, acc, ret>>

\* loop_interchange_1: for (j ...) { for (k ...) a[i][j] = b[i][k] + c[k][j]; }
loop_interchange_1 ==
    /\ fn = "loop_interchange_1"
    /\ \/ /\ pc = "for_middle"
          /\ IF j < MatN
             THEN i' = i /\ k' = 0 /\ j' = j /\ pc' = "for_inner"
             ELSE i' = i + 1 /\ k' = k /\ j' = j /\ pc' = "for_outer"
          /\ a' = a
       \/ /\ pc = "for_inner"
          /\ IF k < MatN
             THEN /\ a' = LoopInterchange1Body(a, b, c, i, j, k)
                  /\ k' = k + 1 /\ j' = j /\ pc' = "for_inner"
             ELSE /\ a' = a
                  /\ j' = j + 1 /\ k' = k /\ pc' = "for_middle"
          /\ i' = i
    /\ UNCHANGED <<fn, input, res, b, c, n, to, from, count, mem, acc, ret>>

\* loop_interchange_2: for (k ...) { for (j ...) a[i][j] = b[i][k] + c[k][j]; }
loop_interchange_2 ==
    /\ fn = "loop_interchange_2"
    /\ \/ /\ pc = "for_middle"
          /\ IF k < MatN
             THEN i' = i /\ j' = 0 /\ k' = k /\ pc' = "for_inner"
             ELSE i' = i + 1 /\ j' = j /\ k' = k /\ pc' = "for_outer"
          /\ a' = a
       \/ /\ pc = "for_inner"
          /\ IF j < MatN
             THEN /\ a' = LoopInterchange2Body(a, b, c, i, j, k)
                  /\ j' = j + 1 /\ k' = k /\ pc' = "for_inner"
             ELSE /\ a' = a
                  /\ k' = k + 1 /\ j' = j /\ pc' = "for_middle"
          /\ i' = i
    /\ UNCHANGED <<fn, input, res, b, c, n, to, from, count, mem, acc, ret>>

InterchangeNext ==
    \/ InterchangeCall
    \/ InterchangeOuter
    \/ loop_interchange_1
    \/ loop_interchange_2

SpecInterchange == InterchangeInit /\ [][InterchangeNext]_vars

\* C7: loop_interchange_1 and loop_interchange_2 are equivalent: started from
\* the same contents of b and c, both leave a with the same final contents,
\* and neither modifies b or c (at any point of its run).
C7_InterchangeEquivalent ==
    /\ ~Idle => b = input.b /\ c = input.c
    /\ \A f \in DOMAIN res : res[f].b = input.b /\ res[f].c = input.c
    /\ (Ran("loop_interchange_1") /\ Ran("loop_interchange_2"))
          => res["loop_interchange_1"].a = res["loop_interchange_2"].a

C7_Witness ==
    /\ Ran("loop_interchange_1") /\ Ran("loop_interchange_2")
    /\ input.b # ZeroMat /\ input.c # ZeroMat
    /\ \E r \in MatIdx, s \in MatIdx : res["loop_interchange_2"].a[r][s] = 3

-----------------------------------------------------------------------------
(***************************************************************************)
(* Data dependency: data_dependancy_1 and data_dependancy_2 over           *)
(* int (&a)[1000], int (&b)[1000], int (&c)[1000].                         *)
(***************************************************************************)

ArrayLen == 1000

\* The initial contents: each array holds one value throughout.
DataDepInputs == [a : {0, 1}, b : {0, 1}, c : {0, 1}]

\* a[i] += b[i]; b[i+1] += c[i];  as <<a, b>>
DataDependancy1Body(va, vb, vc, ii) ==
    LET a1 == [va EXCEPT ![ii] = va[ii] + vb[ii]]
        b1 == [vb EXCEPT ![ii + 1] = vb[ii + 1] + vc[ii]]
    IN  <<a1, b1>>

\* a[0] += b[0];
DataDependancy2Prologue(va, vb) == [va EXCEPT ![0] = va[0] + vb[0]]

\* b[i+1] += c[i]; a[i+1] += b[i+1];  as <<a, b>>
DataDependancy2Body(va, vb, vc, ii) ==
    LET b1 == [vb EXCEPT ![ii + 1] = vb[ii + 1] + vc[ii]]
        a1 == [va EXCEPT ![ii + 1] = va[ii + 1] + b1[ii + 1]]
    IN  <<a1, b1>>

DataDepIdle ==
    /\ j = Unused /\ k = Unused
    /\ n = Unused /\ to = Unused /\ from = Unused /\ count = Unused
    /\ mem = Unused /\ acc = Unused

DataDepInit ==
    /\ input \in DataDepInputs
    /\ res = <<>>
    /\ pc = "idle"
    /\ fn = "none"
    /\ a = Unused /\ b = Unused /\ c = Unused /\ i = Unused /\ ret = Unused
    /\ DataDepIdle

\* The call: the three arrays are bound to the same initial contents.
DataDepCall ==
    /\ Idle
    /\ \E f \in {"data_dependancy_1", "data_dependancy_2"} :
          /\ ~Ran(f)
          /\ fn' = f
          /\ pc' = IF f = "data_dependancy_1" THEN "for" ELSE "prologue"
    /\ a' = Fill(ArrayLen, input.a)
    /\ b' = Fill(ArrayLen, input.b)
    /\ c' = Fill(ArrayLen, input.c)
    /\ i' = 0
    /\ UNCHANGED <<input, res, j, k, n, to, from, count, mem, acc, ret>>

data_dependancy_1 ==
    /\ fn = "data_dependancy_1"
    /\ pc = "for"
    /\ IF i <= 998
       THEN /\ a' = DataDependancy1Body(a, b, c, i)[1]
            /\ b' = DataDependancy1Body(a, b, c, i)[2]
            /\ i' = i + 1
            /\ pc' = "for"
            /\ UNCHANGED <<ret, res>>
       ELSE /\ ret' = b[999]
            /\ res' = res @@ (fn :> [ret |-> b[999], a |-> a, b |-> b, c |-> c])
            /\ pc' = "idle"
            /\ UNCHANGED <<a, b, i>>
    /\ UNCHANGED <<fn, input, c, j, k, n, to, from, count, mem, acc>>

data_dependancy_2 ==
    /\ fn = "data_dependancy_2"
    /\ \/ /\ pc = "prologue"
          /\ a' = DataDependancy2Prologue(a, b)
          /\ i' = 1
          /\ pc' = "for"
          /\ UNCHANGED <<b, ret, res>>
       \/ /\ pc = "for"
          /\ IF i < 998
             THEN /\ a' = DataDependancy2Body(a, b, c, i)[1]
                  /\ b' = DataDependancy2Body(a, b, c, i)[2]
                  /\ i' = i + 1
                  /\ pc' = "for"
                  /\ UNCHANGED <<ret, res>>
             ELSE /\ ret' = b[999]
                  /\ res' = res @@ (fn :> [ret |-> b[999], a |-> a, b |-> b, c |-> c])
                  /\ pc' = "idle"
                  /\ UNCHANGED <<a, b, i>>
    /\ UNCHANGED <<fn, input, c, j, k, n, to, from, count, mem, acc>>

DataDepNext == DataDepCall \/ data_dependancy_1 \/ data_dependancy_2

SpecDataDep == DataDepInit /\ [][DataDepNext]_vars

\* C1: data_dependancy_1 and data_dependancy_2 are equivalent: started from
\* the same contents of a, b and c, both return the same value and leave a
\* and b with the same final contents, and c is changed by neither.
C1_DataDepEquivalent ==
    /\ \A f \in DOMAIN res : res[f].c = Fill(ArrayLen, input.c)
    /\ (Ran("data_dependancy_1") /\ Ran("data_dependancy_2"))
          => /\ res["data_dependancy_1"].ret = res["data_dependancy_2"].ret
             /\ res["data_dependancy_1"].a = res["data_dependancy_2"].a
             /\ res["data_dependancy_1"].b = res["data_dependancy_2"].b

-----------------------------------------------------------------------------
(***************************************************************************)
(* Duff's device: duffs_device(char *to, const char *from, size_t count).  *)
(* mem.dst and mem.src are the objects the pointers to and from point      *)
(* into; to and from are the pointers' offsets from their initial values.  *)
(***************************************************************************)

\* std::size_t arithmetic is modular.  The snippets target x86-64, where the
\* modulus is 2^64; TLC's integers have 32 bits, so 2^30 stands for it.  Every
\* count and offset reached here is far below both, so the only wrap that can
\* be observed is that of --n at n = 0, which lands on the modulus minus one
\* for either modulus.
SizeMod == 2 ^ 30

MaxCount == 17

\* The largest block the device moves in one pass.
DuffBlock == 8

\* The label the switch jumps to for each value of count % 8.
CaseLabel(r) ==
    CASE r = 0 -> "case0" [] r = 7 -> "case7" [] r = 6 -> "case6"
      [] r = 5 -> "case5" [] r = 4 -> "case4" [] r = 3 -> "case3"
      [] r = 2 -> "case2" [] r = 1 -> "case1"

\* The statement that follows each labelled statement (fall-through).
FallThrough(l) ==
    CASE l = "case0" -> "case7" [] l = "case7" -> "case6"
      [] l = "case6" -> "case5" [] l = "case5" -> "case4"
      [] l = "case4" -> "case3" [] l = "case3" -> "case2"
      [] l = "case2" -> "case1" [] l = "case1" -> "while"

CaseLabels ==
    {"case0", "case7", "case6", "case5", "case4", "case3", "case2", "case1"}

\* std::size_t n = (count + 7) / 8;
DuffIterations(cnt) == ((cnt + 7) % SizeMod) \div 8

\* --n
DuffDecrement(nn) == (nn - 1) % SizeMod

\* A source buffer of len bytes, all different from the 0 the destination holds.
DuffSource(len, seed) == [x \in 0 .. len - 1 |-> ((x + 1) * seed) % 256]

DuffIdle ==
    /\ res = Unused /\ fn = "duffs_device"
    /\ a = Unused /\ b = Unused /\ c = Unused
    /\ i = Unused /\ j = Unused /\ k = Unused /\ ret = Unused

\* The buffers hold exactly count bytes, or one block more.
DuffInit ==
    /\ count \in 0 .. MaxCount
    /\ \E cap \in {count, count + DuffBlock}, seed \in {1, 3} :
          mem = [dst |-> Fill(cap, 0), src |-> DuffSource(cap, seed)]
    /\ input = mem
    /\ to = 0 /\ from = 0
    /\ n = Unused
    /\ pc = "entry"
    /\ acc = [w |-> <<>>, r |-> <<>>, passes |-> 0, wrapped |-> FALSE]
    /\ DuffIdle

\* n = (count + 7) / 8; switch (count % 8)
DuffSwitch ==
    /\ pc = "entry"
    /\ n' = DuffIterations(count)
    /\ pc' = CaseLabel(count % 8)
    /\ acc' = [acc EXCEPT !.passes = 1]
    /\ UNCHANGED <<fn, input, res, a, b, c, i, j, k, to, from, count, mem, ret>>

\* *to++ = *from++;
DuffCopy ==
    /\ pc \in CaseLabels
    /\ acc' = [acc EXCEPT !.w = Append(@, to), !.r = Append(@, from)]
    /\ IF to \in DOMAIN mem.dst /\ from \in DOMAIN mem.src
       THEN /\ mem' = [mem EXCEPT !.dst[to] = mem.src[from]]
            /\ to' = to + 1
            /\ from' = from + 1
            /\ pc' = FallThrough(pc)
       ELSE /\ pc' = "undefined"
            /\ UNCHANGED <<mem, to, from>>
    /\ UNCHANGED <<fn, input, res, a, b, c, i, j, k, n, count, ret>>

\* } while (--n > 0);
DuffWhile ==
    /\ pc = "while"
    /\ n' = DuffDecrement(n)
    /\ IF DuffDecrement(n) > 0
       THEN /\ pc' = "case0"
            /\ acc' = [acc EXCEPT !.passes = @ + 1,
                                  !.wrapped = @ \/ (n = 0)]
       ELSE /\ pc' = "done"
            /\ acc' = [acc EXCEPT !.wrapped = @ \/ (n = 0)]
    /\ UNCHANGED <<fn, input, res, a, b, c, i, j, k, to, from, count, mem, ret>>

DuffNext == DuffSwitch \/ DuffCopy \/ DuffWhile

SpecDuff == DuffInit /\ [][DuffNext]_vars

\* The offsets a plain byte copy of cnt bytes transfers, in its order.
PlainCopyOrder(cnt) == [x \in 1 .. cnt |-> x - 1]

IsPrefix(s, t) == Len(s) <= Len(t) /\ \A x \in 1 .. Len(s) : s[x] = t[x]

\* C2: duffs_device performs the data transfer of a plain byte copy, for
\* every count >= 0: its behaviour is defined, the bytes move in ascending
\* index order and are those of the plain copy, from is unchanged, and on
\* return to[x] = from[x] for every x in 0..count-1.
C2_DuffIsPlainCopy ==
    /\ pc # "undefined"
    /\ IsPrefix(acc.w, PlainCopyOrder(count))
    /\ acc.r = acc.w
    /\ mem.src = input.src
    /\ pc = "done" => \A x \in 0 .. count - 1 : mem.dst[x] = mem.src[x]

\* C9: duffs_device transfers exactly count bytes for every count >= 0: no
\* byte of to is written and no byte of from is read at an offset >= count,
\* the do-while body is entered exactly (count + 7) / 8 times, and n never
\* wraps around below zero.
C9_DuffExactlyCount ==
    /\ \A x \in 1 .. Len(acc.w) : acc.w[x] < count
    /\ \A x \in 1 .. Len(acc.r) : acc.r[x] < count
    /\ acc.passes <= (count + 7) \div 8
    /\ pc = "done" => acc.passes = (count + 7) \div 8 /\ Len(acc.w) = count
    /\ ~acc.wrapped

-----------------------------------------------------------------------------
(***************************************************************************)
(* SIMD: simd_add(float *a, float *b, float *c, size_t N).  The floats are *)
(* small whole numbers, which float addition adds exactly.                 *)
(***************************************************************************)

MaxSimdN == 17

\* The number of floats in a __m256.
SimdWidth == 8

\* The indices _mm256_load_ps(&p[i]) loads and _mm256_store_ps(&p[i], v) stores.
SimdLanes(ii) == ii .. ii + SimdWidth - 1

\* _mm256_store_ps(&c[i], _mm256_add_ps(_mm256_load_ps(&a[i]), _mm256_load_ps(&b[i])))
SimdAddStore(va, vb, vc, ii) ==
    [x \in DOMAIN vc |-> IF x \in SimdLanes(ii) THEN va[x] + vb[x] ELSE vc[x]]

\* The lanes of SimdLanes(ii) in ascending order, appended to log.
RECURSIVE LogLanes(_, _, _)
LogLanes(log, ii, lanes) ==
    IF lanes = 0 THEN log ELSE LogLanes(Append(log, ii), ii + 1, lanes - 1)

SimdIdle ==
    /\ res = Unused /\ fn = "simd_add"
    /\ j = Unused /\ k = Unused /\ to = Unused /\ from = Unused
    /\ count = Unused /\ mem = Unused /\ ret = Unused

\* The three buffers hold exactly N floats, or one vector more.
SimdInit ==
    /\ n \in 0 .. MaxSimdN
    /\ \E cap \in {n, n + SimdWidth}, seed \in {1, 2} :
          /\ a = [x \in 0 .. cap - 1 |-> x + 1]
          /\ b = [x \in 0 .. cap - 1 |-> 100 * seed + x]
          /\ c = Fill(cap, 0)
    /\ input = [a |-> a, b |-> b, c |-> c]
    /\ i = 0
    /\ pc = "for"
    /\ acc = [ld |-> <<>>, st |-> <<>>]
    /\ SimdIdle

simd_add ==
    /\ pc = "for"
    /\ IF i < n
       THEN /\ acc' = [ld |-> LogLanes(acc.ld, i, SimdWidth),
                       st |-> LogLanes(acc.st, i, SimdWidth)]
            /\ IF SimdLanes(i) \subseteq (DOMAIN a \cap DOMAIN b \cap DOMAIN c)
               THEN /\ c' = SimdAddStore(a, b, c, i)
                    /\ i' = (i + SimdWidth) % SizeMod
                    /\ pc' = "for"
               ELSE /\ pc' = "undefined"
                    /\ UNCHANGED <<c, i>>
       ELSE /\ pc' = "done"
            /\ UNCHANGED <<acc, c, i>>
    /\ UNCHANGED <<fn, input, res, a, b, j, k, n, to, from, count, mem, ret>>

SimdNext == simd_add

SpecSimd == SimdInit /\ [][SimdNext]_vars

\* How often index x occurs in log.
Occurrences(log, x) == Cardinality({p \in 1 .. Len(log) : log[p] = x})

\* C10: simd_add stays inside its N-element buffers for every N >= 0: every
\* index it loads from a and b and every index it stores to c is in 0..N-1,
\* every index in 0..N-1 of c is written exactly once, with a[x] + b[x], and
\* a and b are unchanged.
C10_SimdInBounds ==
    /\ pc # "undefined"
    /\ \A p \in 1 .. Len(acc.ld) : acc.ld[p] \in 0 .. n - 1
    /\ \A p \in 1 .. Len(acc.st) : acc.st[p] \in 0 .. n - 1
    /\ a = input.a /\ b = input.b
    /\ pc = "done" => \A x \in 0 .. n - 1 :
                          /\ c[x] = input.a[x] + input.b[x]
                          /\ Occurrences(acc.st, x) = 1

-----------------------------------------------------------------------------
(***************************************************************************)
(* likely / unlikely: branch_ex_1(YesNo) and branch_ex_2(YesNo, int) over  *)
(* the static int count.                                                   *)
(***************************************************************************)

MaxCalls == 8

YesNo == {"Yes", "No"}

\* if (yesno == YesNo::Yes) [[likely]] { ++count; return true; } return false;
BranchEx1(yesno, cnt) ==
    IF yesno = "Yes"
    THEN [count |-> cnt + 1, ret |-> TRUE]
    ELSE [count |-> cnt, ret |-> FALSE]

\* branch_ex_2 with the test inverted.
BranchEx2Inverted(yesno, arg, cnt) ==
    IF yesno # "Yes"
    THEN [count |-> cnt + 1, ret |-> TRUE]
    ELSE [count |-> cnt, ret |-> FALSE]

\* if (yesno == YesNo::Yes) [[unlikely]] { ++count; return true; } return false;
BranchEx2(yesno, arg, cnt) ==
    IF yesno = "Yes"
    THEN [count |-> cnt + 1, ret |-> TRUE]
    ELSE [count |-> cnt, ret |-> FALSE]

BranchExIdle ==
    /\ res = Unused /\ a = Unused /\ b = Unused /\ c = Unused
    /\ i = Unused /\ j = Unused /\ k = Unused /\ n = Unused
    /\ to = Unused /\ from = Unused /\ mem = Unused

\* static int count = 0;
BranchExInit ==
    /\ count = 0
    /\ pc = "idle"
    /\ fn = "none"
    /\ input = [yesno |-> "No", a |-> 0]
    /\ ret = FALSE
    /\ acc = [calls |-> 0, trues |-> 0, before |-> 0]
    /\ BranchExIdle

\* What a call that returned r adds to the record of the calls made.
Called(r) ==
    [calls |-> acc.calls + 1,
     trues |-> acc.trues + (IF r.ret THEN 1 ELSE 0),
     before |-> count]

branch_ex_1 ==
    /\ acc.calls < MaxCalls
    /\ \E yesno \in YesNo :
          LET r == BranchEx1(yesno, count) IN
          /\ count' = r.count
          /\ ret' = r.ret
          /\ input' = [yesno |-> yesno, a |-> 0]
          /\ acc' = Called(r)
    /\ fn' = "branch_ex_1"
    /\ UNCHANGED <<pc, res, a, b, c, i, j, k, n, to, from, mem>>

branch_ex_2 ==
    /\ acc.calls < MaxCalls
    /\ \E yesno \in YesNo, arg \in {-1, 7} :
          LET r == BranchEx2(yesno, arg, count) IN
          /\ count' = r.count
          /\ ret' = r.ret
          /\ input' = [yesno |-> yesno, a |-> arg]
          /\ acc' = Called(r)
    /\ fn' = "branch_ex_2"
    /\ UNCHANGED <<pc, res, a, b, c, i, j, k, n, to, from, mem>>

BranchExNext == branch_ex_1 \/ branch_ex_2

SpecBranchEx == BranchExInit /\ [][BranchExNext]_vars

\* C5: over any sequence of calls of branch_ex_1 and branch_ex_2, every call
\* returns true exactly when its yesno is Yes, count equals the number of
\* calls so far that returned true, a call with No leaves count unchanged,
\* and for the same yesno the two functions return the same value and have
\* the same effect on count.
C5_BranchExCount ==
    /\ count = acc.trues
    /\ acc.calls > 0 =>
          /\ ret = (input.yesno = "Yes")
          /\ input.yesno = "No" => count = acc.before
          /\ input.yesno = "Yes" => count = acc.before + 1
    /\ \A yesno \in YesNo, arg \in {-1, 7} :
          BranchEx1(yesno, count) = BranchEx2(yesno, arg, count)

C5_Witness ==
    /\ fn = "branch_ex_2"
    /\ input.yesno = "No"
    /\ acc.calls = 5
    /\ count = 3

-----------------------------------------------------------------------------
(***************************************************************************)
(* The vector snippets.  A call is one step: the function is an operator   *)
(* over the state of its loop, a record of the vectors, the counter i, the *)
(* set acc of the accesses made, as <<vector name, index>>, and ub, which  *)
(* is set by an access outside a vector and ends the run.                  *)
(***************************************************************************)

MaxLen == 3

\* The vectors of at most MaxLen elements of vals.
Vectors(vals) == UNION {[0 .. len - 1 -> vals] : len \in 0 .. MaxLen}

VectorIdle ==
    /\ pc = "idle"
    /\ a = Unused /\ b = Unused /\ c = Unused
    /\ i = Unused /\ j = Unused /\ k = Unused /\ n = Unused
    /\ to = Unused /\ from = Unused /\ count = Unused /\ mem = Unused
    /\ acc = Unused /\ ret = Unused

\* The call of variant f, which leaves r behind.
VectorCall(f, r) ==
    /\ ~Ran(f)
    /\ fn' = f
    /\ res' = res @@ (f :> r)
    /\ UNCHANGED <<pc, input, a, b, c, i, j, k, n, to, from, count, mem, acc, ret>>

(***************************************************************************)
(* do {} while: branch_while_1 and branch_while_2.                         *)
(***************************************************************************)

\* The largest int (32 bits).
IntMax == 2147483647

\* in[i] += 1; i++;  The access is undefined outside the vector, and the
\* addition is undefined on IntMax.
WhileBody(st) ==
    IF st.i \in DOMAIN st.in /\ st.in[st.i] # IntMax
    THEN [st EXCEPT !.in[st.i] = @ + 1, !.i = @ + 1,
                    !.acc = @ \cup {<<"in", st.i>>}]
    ELSE [st EXCEPT !.acc = @ \cup {<<"in", st.i>>}, !.ub = TRUE]

\* while (i < in.size()) { in[i] += 1; i++; }
RECURSIVE BranchWhile1Loop(_)
BranchWhile1Loop(st) ==
    IF st.ub \/ ~(st.i < Size(st.in))
    THEN st
    ELSE BranchWhile1Loop(WhileBody(st))

\* branch_while_2's loop with the test i < in.size() - 1.
RECURSIVE BranchWhile2LoopStopsShort(_)
BranchWhile2LoopStopsShort(st) ==
    LET s1 == WhileBody(st) IN
    IF s1.ub \/ ~(s1.i < Size(s1.in) - 1)
    THEN s1
    ELSE BranchWhile2LoopStopsShort(s1)

\* do { in[i] += 1; i++; } while (i < in.size());
RECURSIVE BranchWhile2Loop(_)
BranchWhile2Loop(st) ==
    LET s1 == WhileBody(st) IN
    IF s1.ub \/ ~(s1.i < Size(s1.in))
    THEN s1
    ELSE BranchWhile2Loop(s1)

\* int i = 0;
WhileEntry(in) == [in |-> in, i |-> 0, acc |-> {}, ub |-> FALSE]

BranchWhile1(in) == BranchWhile1Loop(WhileEntry(in))

BranchWhile2(in) == BranchWhile2Loop(WhileEntry(in))

WhileInit ==
    /\ input \in Vectors({-1, 0, 5, IntMax})
    /\ res = <<>>
    /\ fn = "none"
    /\ VectorIdle

branch_while_1 == VectorCall("branch_while_1", BranchWhile1(input))

branch_while_2 == VectorCall("branch_while_2", BranchWhile2(input))

WhileNext == branch_while_1 \/ branch_while_2

SpecWhile == WhileInit /\ [][WhileNext]_vars

\* What the claim says a run leaves behind: every access inside the vector,
\* and every element one more than it was.
WhileIncremented(r) ==
    /\ ~r.ub
    /\ \A p \in r.acc : p[2] \in DOMAIN input
    /\ \A x \in DOMAIN input : r.in[x] - input[x] = 1

\* C3 as stated: for every input vector, the empty one included,
\* branch_while_1 and branch_while_2 leave the vector in the same final
\* state, every element incremented by exactly 1, and neither reads or
\* writes an index outside 0..size-1.
C3_WhileEquivalentAnyLength ==
    /\ \A f \in DOMAIN res : WhileIncremented(res[f])
    /\ (Ran("branch_while_1") /\ Ran("branch_while_2"))
          => res["branch_while_1"].in = res["branch_while_2"].in

\* No element is INT_MAX: every in[i] += 1 is defined.
NoOverflow(in) == \A x \in DOMAIN in : in[x] # IntMax

\* C3 amended: the same for every input vector of at least one element, none
\* of them INT_MAX, and for branch_while_1 on the empty vector too.  On the
\* empty vector branch_while_2 accesses in[0], outside the vector, and on an
\* element INT_MAX the increment of either function overflows.
C3_WhileEquivalentNonEmpty ==
    /\ Ran("branch_while_1") =>
          IF NoOverflow(input)
          THEN WhileIncremented(res["branch_while_1"])
          ELSE res["branch_while_1"].ub
    /\ Ran("branch_while_2") =>
          IF Size(input) > 0 /\ NoOverflow(input)
          THEN WhileIncremented(res["branch_while_2"])
          ELSE /\ res["branch_while_2"].ub
               /\ Size(input) = 0 => <<"in", 0>> \in res["branch_while_2"].acc
    /\ (Size(input) > 0 /\ NoOverflow(input)
            /\ Ran("branch_while_1") /\ Ran("branch_while_2"))
          => res["branch_while_1"].in = res["branch_while_2"].in

C3_Witness ==
    /\ Ran("branch_while_1") /\ Ran("branch_while_2")
    /\ Size(input) >= 2
    /\ res["branch_while_2"].in[1] = 6
    /\ res["branch_while_2"].acc = {<<"in", x>> : x \in DOMAIN input}

-----------------------------------------------------------------------------
(***************************************************************************)
(* Loop fusion and loop fission over std::vector<int> &a, &b.              *)
(***************************************************************************)

\* v[i] += 1 (v is "a") or v[i] *= 2 (v is "b"), on the loop state st
VectorUpdate(st, v) ==
    IF st.i \in DOMAIN st[v]
    THEN [st EXCEPT ![v][st.i] = IF v = "a" THEN @ + 1 ELSE @ * 2,
                    !.acc = @ \cup {<<v, st.i>>}]
    ELSE [st EXCEPT !.acc = @ \cup {<<v, st.i>>}, !.ub = TRUE]

\* ++i
NextIndex(st) == [st EXCEPT !.i = @ + 1]

\* for (i = 0; i < a.size(); ++i) { a[i] += 1; b[i] *= 2; }
RECURSIVE LoopFusionLoop(_)
LoopFusionLoop(st) ==
    IF st.ub \/ ~(st.i < Size(st.a))
    THEN st
    ELSE LET s1 == VectorUpdate(st, "a")
             s2 == IF s1.ub THEN s1 ELSE VectorUpdate(s1, "b")
         IN  LoopFusionLoop(IF s2.ub THEN s2 ELSE NextIndex(s2))

\* for (i = 0; i < v.size(); ++i) { v[i] += 1 or v[i] *= 2 }: one of loop_fission's loops
RECURSIVE LoopFissionLoop(_, _)
LoopFissionLoop(st, v) ==
    IF st.ub \/ ~(st.i < Size(st[v]))
    THEN st
    ELSE LET s1 == VectorUpdate(st, v)
         IN  LoopFissionLoop(IF s1.ub THEN s1 ELSE NextIndex(s1), v)

FusionEntry(va, vb) == [a |-> va, b |-> vb, i |-> 0, acc |-> {}, ub |-> FALSE]

LoopFusion(va, vb) == LoopFusionLoop(FusionEntry(va, vb))

LoopFission(va, vb) ==
    LET s1 == LoopFissionLoop(FusionEntry(va, vb), "a")
    IN  IF s1.ub THEN s1 ELSE LoopFissionLoop([s1 EXCEPT !.i = 0], "b")

FusionInit ==
    /\ input \in [a : Vectors({-3, 0, 1}), b : Vectors({-3, 0, 1})]
    /\ res = <<>>
    /\ fn = "none"
    /\ VectorIdle

loop_fusion == VectorCall("loop_fusion", LoopFusion(input.a, input.b))

loop_fission == VectorCall("loop_fission", LoopFission(input.a, input.b))

FusionNext == loop_fusion \/ loop_fission

SpecFusion == FusionInit /\ [][FusionNext]_vars

\* What the claim says a run leaves behind: every access inside the vector it
\* indexes, every element of a one more and every element of b twice what
\* it was.
FusionApplied(r) ==
    /\ ~r.ub
    /\ \A p \in r.acc : p[2] \in DOMAIN input[p[1]]
    /\ r.a = [x \in DOMAIN input.a |-> input.a[x] + 1]
    /\ r.b = [x \in DOMAIN input.b |-> input.b[x] * 2]

\* C4: loop_fusion and loop_fission are equivalent for vectors a and b of any
\* lengths, equal or different: both leave a and b with the same final
\* contents, every element of a incremented by 1 and every element of b
\* doubled, and neither accesses an index outside the vector it indexes.
C4_FusionEquivalentAnyLengths ==
    /\ \A f \in DOMAIN res : FusionApplied(res[f])
    /\ (Ran("loop_fusion") /\ Ran("loop_fission"))
          => /\ res["loop_fusion"].a = res["loop_fission"].a
             /\ res["loop_fusion"].b = res["loop_fission"].b

-----------------------------------------------------------------------------
(***************************************************************************)
(* Branch prediction: branch_mispredict and branch_predict over            *)
(* const std::vector<int> &data.  The loop state is the running sum and    *)
(* the sums reached after each element.                                    *)
(***************************************************************************)

\* The int operator % of C++: the remainder has the sign of the dividend.
CRem(x, m) == IF x >= 0 THEN x % m ELSE -((-x) % m)

\* The conversion of bool to int.
BoolToInt(t) == IF t THEN 1 ELSE 0

\* if (x % 2 == 0) { sum += x; }
MispredictBody(sum, x) == IF CRem(x, 2) = 0 THEN sum + x ELSE sum

\* branch_predict's statement with the comparison to 0 dropped: sum += x * (x % 2)
PredictBodyNoCompare(sum, x) == sum + x * CRem(x, 2)

\* sum += x * ((x % 2) == 0);
PredictBody(sum, x) == sum + x * BoolToInt(CRem(x, 2) = 0)

\* for (int x : data): the sums after each of the elements from position p on
RECURSIVE MispredictLoop(_, _, _)
MispredictLoop(data, p, st) ==
    IF p = Size(data)
    THEN st
    ELSE LET s1 == MispredictBody(st.sum, data[p])
         IN  MispredictLoop(data, p + 1, [sum |-> s1, sums |-> Append(st.sums, s1)])

RECURSIVE PredictLoop(_, _, _)
PredictLoop(data, p, st) ==
    IF p = Size(data)
    THEN st
    ELSE LET s1 == PredictBody(st.sum, data[p])
         IN  PredictLoop(data, p + 1, [sum |-> s1, sums |-> Append(st.sums, s1)])

\* int sum = 0; ...; return sum > 1000;
BranchMispredict(data) ==
    LET st == MispredictLoop(data, 0, [sum |-> 0, sums |-> <<>>])
    IN  [ret |-> st.sum > 1000, sums |-> st.sums]

BranchPredict(data) ==
    LET st == PredictLoop(data, 0, [sum |-> 0, sums |-> <<>>])
    IN  [ret |-> st.sum > 1000, sums |-> st.sums]

PredictInit ==
    /\ input \in Vectors({-3, -2, 0, 7, 500, 1000})
    /\ res = <<>>
    /\ fn = "none"
    /\ VectorIdle

branch_mispredict == VectorCall("branch_mispredict", BranchMispredict(input))

branch_predict == VectorCall("branch_predict", BranchPredict(input))

PredictNext == branch_mispredict \/ branch_predict

SpecPredict == PredictInit /\ [][PredictNext]_vars

\* The sum of the even elements among the first len elements of data.
RECURSIVE SumOfEvens(_, _)
SumOfEvens(data, len) ==
    IF len = 0
    THEN 0
    ELSE SumOfEvens(data, len - 1)
            + (IF data[len - 1] % 2 = 0 THEN data[len - 1] ELSE 0)

\* C6: branch_mispredict and branch_predict return the same boolean for every
\* vector of ints: in both, the running sum after each element is the sum of
\* the even elements seen so far, and the result is whether the final sum
\* exceeds 1000.
C6_PredictEquivalent ==
    /\ \A f \in DOMAIN res :
          /\ Len(res[f].sums) = Size(input)
          /\ \A p \in 1 .. Size(input) : res[f].sums[p] = SumOfEvens(input, p)
          /\ res[f].ret = (SumOfEvens(input, Size(input)) > 1000)
    /\ (Ran("branch_mispredict") /\ Ran("branch_predict"))
          => res["branch_mispredict"].ret = res["branch_predict"].ret

C6_Witness ==
    /\ Ran("branch_mispredict") /\ Ran("branch_predict")
    /\ res["branch_predict"].ret
    /\ \E p \in DOMAIN input : input[p] = -3
    /\ res["branch_predict"].sums[Size(input)] = 1500

====
